---- MODULE Spec2Model ----
(***************************************************************************)
(* A model of the fence-safe code-block pipeline of html_to_markdown:      *)
(*   context_converter/converter.py  HTMLToMarkdownConverter               *)
(*   context_converter/formatter.py  DatasetFormatter                      *)
(*                                                                         *)
(* Text is a sequence of characters; a character is a one-character        *)
(* string.  ZW stands for U+200B (zero-width space).                       *)
(***************************************************************************)
EXTENDS Integers, Sequences, FiniteSets, TLC

\* BT stands for the backtick (U+0060), written here as an apostrophe.
BT == "'"
ZW == "z"
NL == "\n"
SP == " "
BS == "\\"

(***************************************************************************)
(* Bounds of the model.                                                    *)
(***************************************************************************)
MaxTextLen == 4
MaxNodes == 2
MaxConversions == 2
MaxLines == 3
MaxEscLines == 3

(***************************************************************************)
(* Generic text helpers (Python str / re primitives used by the source).   *)
(***************************************************************************)
Max(a, b) == IF a >= b THEN a ELSE b

Ticks(n) == [i \in 1..n |-> BT]

Drop(s, n) == SubSeq(s, n + 1, Len(s))

StartsWith(s, p) == Len(s) >= Len(p) /\ SubSeq(s, 1, Len(p)) = p

\* s in every text of length <= n over the characters of A
SeqsUpTo(A, n) == UNION {[1..m -> A] : m \in 0..n}

RECURSIVE Concat(_)
Concat(ss) == IF ss = <<>> THEN <<>> ELSE Head(ss) \o Concat(Tail(ss))

\* str.replace(pat, rep): leftmost, non-overlapping occurrences
RECURSIVE Replace(_, _, _)
Replace(s, pat, rep) ==
    IF s = <<>> THEN <<>>
    ELSE IF StartsWith(s, pat) THEN rep \o Replace(Drop(s, Len(pat)), pat, rep)
    ELSE <<Head(s)>> \o Replace(Tail(s), pat, rep)

\* str.split(sep) for a one-character sep: always at least one (maybe empty) piece
RECURSIVE SplitFrom(_, _, _)
SplitFrom(s, sep, cur) ==
    IF s = <<>> THEN <<cur>>
    ELSE IF Head(s) = sep THEN <<cur>> \o SplitFrom(Tail(s), sep, <<>>)
    ELSE SplitFrom(Tail(s), sep, Append(cur, Head(s)))

Split(s, sep) == SplitFrom(s, sep, <<>>)

\* sep.join(pieces)
RECURSIVE Join(_, _)
Join(pieces, sep) ==
    IF pieces = <<>> THEN <<>>
    ELSE IF Len(pieces) = 1 THEN pieces[1]
    ELSE pieces[1] \o sep \o Join(Tail(pieces), sep)

\* length of the run of backticks s starts with (the match of BT+ at s)
RECURSIVE LeadingTicks(_)
LeadingTicks(s) ==
    IF s = <<>> \/ Head(s) # BT THEN 0 ELSE 1 + LeadingTicks(Tail(s))

Whitespace == {SP, NL}

\* str.strip()
RECURSIVE LStrip(_)
LStrip(s) == IF s # <<>> /\ Head(s) \in Whitespace THEN LStrip(Tail(s)) ELSE s

RECURSIVE RStrip(_)
RStrip(s) ==
    IF s # <<>> /\ s[Len(s)] \in Whitespace THEN RStrip(SubSeq(s, 1, Len(s) - 1)) ELSE s

Strip(s) == RStrip(LStrip(s))

\* p occurs in s as a contiguous piece
ContainsSub(s, p) ==
    \E i \in 1..(Len(s) - Len(p) + 1) : SubSeq(s, i, i + Len(p) - 1) = p

(***************************************************************************)
(* converter.py: the pure parts of HTMLToMarkdownConverter.                *)
(***************************************************************************)
LangPrefix == <<"l", "a", "n", "g", "u", "a", "g", "e", "-">>

KnownLanguages ==
    { <<"p", "y", "t", "h", "o", "n">>, <<"j", "s">>,
      <<"j", "a", "v", "a", "s", "c", "r", "i", "p", "t">>,
      <<"h", "t", "m", "l">>, <<"c", "s", "s">>, <<"b", "a", "s", "h">> }

\* _get_code_language: the first class that decides, else ''
RECURSIVE GetCodeLanguage(_)
GetCodeLanguage(classes) ==
    IF classes = <<>> THEN <<>>
    ELSE LET cls == Head(classes) IN
         IF StartsWith(cls, LangPrefix) THEN Drop(cls, Len(LangPrefix))
         ELSE IF cls \in KnownLanguages THEN cls
         ELSE GetCodeLanguage(Tail(classes))

\* code.text.replace(BT, ZW BT ZW)
WrapBackticks(text) == Replace(text, <<BT>>, <<ZW, BT, ZW>>)

\* an unwrapping that drops every zero-width character
UnwrapDropMarkers(content) == Replace(content, <<ZW>>, <<>>)

\* block['content'].replace(ZW BT ZW, BT)
UnwrapBackticks(content) == Replace(content, <<ZW, BT, ZW>>, <<BT>>)

\* max(len(m.group(0)) for m in re.finditer(BT+, content)) if BT in content else 0
RECURSIVE MaxBackticks(_)
MaxBackticks(s) ==
    IF s = <<>> THEN 0
    ELSE LET n == LeadingTicks(s) IN
         IF n = 0 THEN MaxBackticks(Tail(s))
         ELSE Max(n, MaxBackticks(Drop(s, n)))

FenceLength(max_backticks) == Max(4, max_backticks + 1)

\* The placeholder f"CODEBLOCK_{n}_END": its two literal pieces are single
\* tokens, the index is its decimal digit.
DigitChars == <<"0", "1", "2", "3", "4", "5", "6", "7", "8", "9">>

Placeholder(n) == <<"CODEBLOCK_", DigitChars[n + 1], "_END">>

DigitValue(c) == (CHOOSE d \in 1..10 : DigitChars[d] = c) - 1

\* re.search(r'CODEBLOCK_(\d+)_END', text): the places where it matches
PlaceholderMatches(text) ==
    { i \in 1..(Len(text) - 2) :
        /\ text[i] = "CODEBLOCK_"
        /\ \E d \in 1..10 : DigitChars[d] = text[i + 1]
        /\ text[i + 2] = "_END" }

\* the body of convert_pre's try block: the fenced text of one record
FencedBlock(block) ==
    LET content == UnwrapBackticks(block.content)
        max_backticks == MaxBackticks(content)
        fence_length == FenceLength(max_backticks)
        fence == Ticks(fence_length)
        lang == IF block.language # <<>> THEN block.language \o <<NL>> ELSE <<>>
    IN  <<NL>> \o fence \o lang \o content \o <<NL>> \o fence \o <<NL>>

\* super().convert_pre of the rendering library: a three-backtick fence
DefaultConvertPre(text) ==
    <<NL>> \o Ticks(3) \o <<NL>> \o text \o <<NL>> \o Ticks(3) \o <<NL>>

\* CodeSafeConverter.convert_pre: what is emitted for one <pre> and by whom
ConvertPre(blocks, text) ==
    LET matches == PlaceholderMatches(text) IN
    IF matches # {}
    THEN LET at == CHOOSE i \in matches : \A j \in matches : i <= j
             idx == DigitValue(text[at + 1])
         IN  IF idx < Len(blocks)
             THEN [by |-> "fence_emitter", idx |-> idx,
                   content |-> UnwrapBackticks(blocks[idx + 1].content),
                   text |-> FencedBlock(blocks[idx + 1])]
             ELSE [by |-> "default", idx |-> idx, content |-> text,
                   text |-> DefaultConvertPre(text)]
    ELSE [by |-> "default", idx |-> -1, content |-> text,
          text |-> DefaultConvertPre(text)]

\* re.sub(r'(BT+)x0', r'\1', markdown): an "x0" right after a backtick goes
RECURSIVE CleanFenceMarkers(_)
CleanFenceMarkers(s) ==
    IF s = <<>> THEN <<>>
    ELSE LET n == LeadingTicks(s) IN
         IF n = 0 THEN <<Head(s)>> \o CleanFenceMarkers(Tail(s))
         ELSE IF StartsWith(Drop(s, n), <<"x", "0">>)
              THEN Ticks(n) \o CleanFenceMarkers(Drop(s, n + 2))
              ELSE Ticks(n) \o CleanFenceMarkers(Drop(s, n))

\* a loop that closes with the fence it has just read, not the one popped
NormalizeLineKeepsRead(st, line) ==
    LET n == LeadingTicks(line) IN
    IF n >= 4
    THEN IF st.fence_stack = <<>>
         THEN [fence_stack |-> Append(st.fence_stack, Ticks(n)),
               output |-> Append(st.output, Ticks(n))]
         ELSE [fence_stack |-> SubSeq(st.fence_stack, 1, Len(st.fence_stack) - 1),
               output |-> Append(st.output, Ticks(n))]
    ELSE [fence_stack |-> st.fence_stack, output |-> Append(st.output, line)]

\* one iteration of the loop of _normalize_code_fences
NormalizeLine(st, line) ==
    LET n == LeadingTicks(line) IN
    IF n >= 4
    THEN LET fence == Ticks(n) IN
         IF st.fence_stack = <<>>
         THEN [fence_stack |-> Append(st.fence_stack, fence),
               output |-> Append(st.output, fence)]
         ELSE LET expected == st.fence_stack[Len(st.fence_stack)] IN
              [fence_stack |-> SubSeq(st.fence_stack, 1, Len(st.fence_stack) - 1),
               output |-> Append(st.output, expected)]
    ELSE [fence_stack |-> st.fence_stack, output |-> Append(st.output, line)]

RECURSIVE NormalizeLines(_, _)
NormalizeLines(st, ls) ==
    IF ls = <<>> THEN st ELSE NormalizeLines(NormalizeLine(st, Head(ls)), Tail(ls))

\* while fence_stack: output.append(fence_stack.pop())
RECURSIVE FlushFences(_)
FlushFences(st) ==
    IF st.fence_stack = <<>> THEN st
    ELSE FlushFences([fence_stack |-> SubSeq(st.fence_stack, 1, Len(st.fence_stack) - 1),
                      output |-> Append(st.output, st.fence_stack[Len(st.fence_stack)])])

\* re.sub(r'(?<!BT)BT BT+(?!BT)', n backslashes then the run, line)
RECURSIVE EscapeRuns(_)
EscapeRuns(s) ==
    IF s = <<>> THEN <<>>
    ELSE LET n == LeadingTicks(s) IN
         IF n = 0 THEN <<Head(s)>> \o EscapeRuns(Tail(s))
         ELSE IF n = 1 THEN <<BT>> \o EscapeRuns(Tail(s))
         ELSE [i \in 1..n |-> BS] \o Ticks(n) \o EscapeRuns(Drop(s, n))

\* the loop of _escape_loose_backticks over the remaining lines
RECURSIVE EscapeLooseLines(_, _)
EscapeLooseLines(ls, in_code_block) ==
    IF ls = <<>> THEN <<>>
    ELSE LET line == Head(ls) IN
         IF StartsWith(Strip(line), Ticks(3))
         THEN <<line>> \o EscapeLooseLines(Tail(ls), ~in_code_block)
         ELSE <<IF in_code_block THEN line ELSE EscapeRuns(line)>>
              \o EscapeLooseLines(Tail(ls), in_code_block)

EscapeLooseBackticks(markdown) ==
    Join(EscapeLooseLines(Split(markdown, NL), FALSE), <<NL>>)

EmptyNorm == [fence_stack |-> <<>>, output |-> <<>>]

\* _normalize_code_fences, whole
NormalizeCodeFences(markdown) ==
    LET ls == Split(CleanFenceMarkers(markdown), NL)
        st == FlushFences(NormalizeLines(EmptyNorm, ls))
    IN  EscapeLooseBackticks(Join(st.output, <<NL>>))

(***************************************************************************)
(* The documents converted.  A parsed document (the soup) is the sequence  *)
(* of its top-level nodes:                                                 *)
(*   pre_code  <pre><code class=...>text</code></pre>                      *)
(*   pre       <pre>text</pre>, no <code> inside (the text is a literal    *)
(*             placeholder-like token here, or the placeholder that        *)
(*             _preserve_code_blocks put in place of the <code>)           *)
(*   text      a text node outside any code element                        *)
(***************************************************************************)
PreCode(classes, t) == [kind |-> "pre_code", class |-> classes, text |-> t]

Pre(t) == [kind |-> "pre", class |-> <<>>, text |-> t]

TextNode(t) == [kind |-> "text", class |-> <<>>, text |-> t]

CodeChars == {BT, ZW, "a"}

RichTexts == SeqsUpTo(CodeChars, MaxTextLen) \ {<<>>}

ClassLists ==
    { <<>>,
      << LangPrefix \o <<"p", "y">> >>,
      << <<"h", "l", "j", "s">>, <<"j", "s">> >>,
      << LangPrefix >> }

SmallTexts ==
    { <<"a">>, <<BT, "a", BT>>, <<"a", BT, BT, BT>>, <<BT, BT, BT, BT, "a">> }

SmallNodes ==
    {PreCode(c, t) : c \in {<<>>, << LangPrefix \o <<"p", "y">> >>}, t \in SmallTexts}
    \cup {TextNode(t) : t \in SmallTexts}
    \cup {Pre(Placeholder(k)) : k \in 0..1}

\* one <pre><code> with any short text, or up to MaxNodes nodes of a small set
Docs ==
    {<<PreCode(c, t)>> : c \in ClassLists, t \in RichTexts}
    \cup UNION {[1..m -> SmallNodes] : m \in 1..MaxNodes}

(***************************************************************************)
(* State.                                                                  *)
(***************************************************************************)
VARIABLES
    pc,                         \* where the running call is
    nconv,                      \* convert() calls started so far
    html_content,               \* convert's argument
    soup,                       \* the parsed tree being rewritten
    cursor,                     \* _preserve_code_blocks: the node visited next
    current_conversion_blocks,  \* the converter's CodeBlockRecord buffer
    emitted,                    \* per node, what the renderer emitted and how
    markdown,                   \* the rendered text
    result,                     \* the text the call worked out
    last_outcome,               \* how the previous call ended
    src_block,                  \* the record the normalized text was emitted for
    lines,                      \* _normalize_code_fences: the lines read
    idx,                        \* the line the running loop reads next
    fence_stack,                \* _normalize_code_fences: the open fences
    output,                     \* _normalize_code_fences: the lines written
    pass,                       \* 1, or 2 when a pass is run on its own output
    first_output,               \* what the first pass wrote
    flushed,                    \* fences the closing while loop appended
    in_code_block,              \* _escape_loose_backticks: the flag
    buffer,                     \* _escape_loose_backticks: the lines written
    entry_content,              \* _structure_entry: the content it is given
    content,                    \* _escape_md_in_content: its argument
    code_block_depth,           \* _escape_md_in_content
    current_fence,              \* _escape_md_in_content (<<>> is None)
    esc_lines,                  \* _escape_md_in_content: the lines written
    line_class,                 \* how each line read was taken: fence, code, prose
    escaped,                    \* what _escape_md_in_content returned
    first_pass,                 \* the first pass's result and line classes
    entry                       \* the formatted entry

convVars == <<pc, nconv, html_content, soup, cursor, current_conversion_blocks,
              emitted, markdown, result, last_outcome>>

\* what a call of convert() holds besides pc, markdown and result
convRest == <<nconv, html_content, soup, cursor, current_conversion_blocks,
              emitted, last_outcome>>

loopVars == <<idx, pass>>

normVars == <<src_block, lines, fence_stack, output, first_output, flushed>>

escVars == <<entry_content, content, code_block_depth, current_fence, esc_lines,
             line_class, escaped, first_pass, entry>>

looseVars == <<in_code_block, buffer>>

otherVars == <<loopVars, normVars, escVars, looseVars>>

vars == <<convVars, loopVars, normVars, escVars, looseVars>>

ConvInit ==
    /\ pc = "idle"
    /\ nconv = 0
    /\ html_content = <<>>
    /\ soup = <<>>
    /\ cursor = 0
    /\ current_conversion_blocks = <<>>     \* __init__, line 24
    /\ emitted = <<>>
    /\ markdown = <<>>
    /\ result = <<>>
    /\ last_outcome = "none"

NoBlock == [some |-> FALSE, content |-> <<>>, language |-> <<>>]

LoopIdle ==
    /\ idx = 0
    /\ pass = 1

NormIdle ==
    /\ src_block = NoBlock
    /\ lines = <<>>
    /\ fence_stack = <<>>
    /\ output = <<>>
    /\ first_output = <<>>
    /\ flushed = 0

LooseIdle ==
    /\ in_code_block = FALSE
    /\ buffer = <<>>

NoPass == [escaped |-> <<>>, class |-> <<>>]

EscIdle ==
    /\ entry_content = <<>>
    /\ content = <<>>
    /\ code_block_depth = 0
    /\ current_fence = <<>>
    /\ esc_lines = <<>>
    /\ line_class = <<>>
    /\ escaped = <<>>
    /\ first_pass = NoPass
    /\ entry = <<>>

(***************************************************************************)
(* convert(), one action per statement of its try block.                   *)
(***************************************************************************)
\* line 34: the call begins, the buffer is reset
ConvertStart(doc) ==
    /\ nconv' = nconv + 1
    /\ html_content' = doc
    /\ current_conversion_blocks' = <<>>
    /\ pc' = "parse"
    /\ UNCHANGED <<soup, cursor, emitted, markdown, result, last_outcome>>
    /\ UNCHANGED otherVars

\* line 35: BeautifulSoup(html_content, "html.parser")
Parse ==
    /\ pc = "parse"
    /\ soup' = html_content
    /\ pc' = "sanitize"
    /\ UNCHANGED <<nconv, html_content, cursor, current_conversion_blocks,
                   emitted, markdown, result, last_outcome>>
    /\ UNCHANGED otherVars

\* line 36: _remove_unwanted_elements; the documents hold nothing it removes
RemoveUnwantedElements ==
    /\ pc = "sanitize"
    /\ cursor' = 1
    /\ pc' = "extract"
    /\ UNCHANGED <<nconv, html_content, soup, current_conversion_blocks,
                   emitted, markdown, result, last_outcome>>
    /\ UNCHANGED otherVars

\* the record _preserve_code_blocks appends for one <code> (conv: the call
\* that made it, kept for the isolation claim only)
CodeBlockRecord(node, conv) ==
    [content |-> WrapBackticks(node.text),
     language |-> GetCodeLanguage(node.class),
     conv |-> conv]

\* line 37: one iteration of the loop of _preserve_code_blocks
PreserveCodeBlock ==
    /\ pc = "extract"
    /\ cursor <= Len(soup)
    /\ LET node == soup[cursor] IN
       IF node.kind = "pre_code"
       THEN /\ current_conversion_blocks' =
                  Append(current_conversion_blocks, CodeBlockRecord(node, nconv))
            /\ soup' = [soup EXCEPT
                  ![cursor] = Pre(Placeholder(Len(current_conversion_blocks')-1))]
       ELSE UNCHANGED <<current_conversion_blocks, soup>>
    /\ cursor' = cursor + 1
    /\ pc' = IF cursor = Len(soup) THEN "wrap" ELSE "extract"
    /\ UNCHANGED <<nconv, html_content, emitted, markdown, result, last_outcome>>
    /\ UNCHANGED otherVars

\* re.search(BT{3,}, text_node)
HasTripleBacktick(t) == \E i \in 1..(Len(t) - 2) : SubSeq(t, i, i + 2) = Ticks(3)

\* _wrap_raw_backticks on one node: a text node is put in a new <pre><code>
WrapNode(node) ==
    IF node.kind = "text" /\ HasTripleBacktick(node.text)
    THEN PreCode(<<>>, node.text)
    ELSE node

\* line 38
WrapRawBackticks ==
    /\ pc = "wrap"
    /\ soup' = [i \in DOMAIN soup |-> WrapNode(soup[i])]
    /\ pc' = "render"
    /\ UNCHANGED <<nconv, html_content, cursor, current_conversion_blocks,
                   emitted, markdown, result, last_outcome>>
    /\ UNCHANGED otherVars

\* the generic renderer on a text node: passed through (no character of
\* CodeChars is one it escapes)
RenderText(t) == t

\* blocks or []
RenderNode(blocks, node) ==
    IF node.kind = "text"
    THEN [by |-> "text", idx |-> -1, content |-> node.text, text |-> RenderText(node.text)]
    ELSE ConvertPre(blocks, node.text)

\* lines 131-140: converter.convert(html) with CodeSafeConverter
HtmlToMarkdown ==
    /\ pc = "render"
    /\ emitted' = [i \in DOMAIN soup |-> RenderNode(current_conversion_blocks, soup[i])]
    /\ markdown' = Concat([i \in DOMAIN soup |-> emitted'[i].text])
    /\ pc' = "normalize"
    /\ UNCHANGED <<nconv, html_content, soup, cursor, current_conversion_blocks,
                   result, last_outcome>>
    /\ UNCHANGED otherVars

\* line 141: return self._normalize_code_fences(markdown)
Normalize ==
    /\ pc = "normalize"
    /\ result' = NormalizeCodeFences(markdown)
    /\ pc' = "return"
    /\ UNCHANGED <<nconv, html_content, soup, cursor, current_conversion_blocks,
                   emitted, markdown, last_outcome>>
    /\ UNCHANGED otherVars

\* lines 40-42: any statement of the try block raises; logged and re-raised
ConvertRaise ==
    /\ pc \in {"parse", "sanitize", "extract", "wrap", "render", "normalize"}
    /\ pc' = "raise"
    /\ UNCHANGED <<nconv, html_content, soup, cursor, current_conversion_blocks,
                   emitted, markdown, result, last_outcome>>
    /\ UNCHANGED otherVars

\* the call is over: its argument and locals are gone, the caller holds the
\* returned text or the exception
LeaveCall ==
    /\ last_outcome' = IF pc = "return" THEN "returned" ELSE "raised"
    /\ pc' = "idle"
    /\ html_content' = <<>>
    /\ soup' = <<>>
    /\ cursor' = 0
    /\ emitted' = <<>>
    /\ markdown' = <<>>
    /\ result' = <<>>
    /\ UNCHANGED nconv
    /\ UNCHANGED otherVars

\* a convert() that empties the buffer on the returning path only
ConvertFinallyOnReturnOnly ==
    /\ pc \in {"return", "raise"}
    /\ current_conversion_blocks' =
           IF pc = "return" THEN <<>> ELSE current_conversion_blocks
    /\ LeaveCall

\* lines 43-44: finally, on the way out of either path
ConvertFinally ==
    /\ pc \in {"return", "raise"}
    /\ current_conversion_blocks' = <<>>
    /\ LeaveCall

\* convert(html_content) is called, one call at a time
Convert ==
    /\ pc = "idle"
    /\ nconv < MaxConversions
    /\ \E doc \in Docs : ConvertStart(doc)

Next ==
    \/ Convert
    \/ Parse
    \/ RemoveUnwantedElements
    \/ PreserveCodeBlock
    \/ WrapRawBackticks
    \/ HtmlToMarkdown
    \/ Normalize
    \/ ConvertRaise
    \/ ConvertFinally

Init == ConvInit /\ LoopIdle /\ NormIdle /\ EscIdle /\ LooseIdle

Spec == Init /\ [][Next]_vars

(***************************************************************************)
(* Claims about the converter.                                             *)
(***************************************************************************)
\* s holds n backticks in a row somewhere
HasRun(s, n) ==
    \E i \in 1..(Len(s) - n + 1) : \A j \in i..(i + n - 1) : s[j] = BT

\* the length of the longest run of backticks of s, 0 when it has none
LongestRun(s) ==
    IF \A i \in DOMAIN s : s[i] # BT THEN 0
    ELSE CHOOSE n \in 1..Len(s) : HasRun(s, n) /\ ~HasRun(s, n + 1)

Rendered == pc \in {"normalize", "return"}

FenceEmitted == {i \in DOMAIN emitted : emitted[i].by = "fence_emitter"}

\* C1 (fence safety, as claimed): in the text emitted for every resolved
\* record, the opening fence (the backticks its first line begins with) and
\* the closing fence (its last line) both have length max(4, k + 1), where k
\* is the longest backtick run of the unwrapped content.
C1_FenceLengthOfEmittedFences ==
    Rendered =>
        \A i \in FenceEmitted :
            LET k == LongestRun(emitted[i].content)
                n == Max(4, k + 1)
                ls == Split(emitted[i].text, NL)
            IN  /\ Len(ls) >= 4
                /\ LeadingTicks(ls[2]) = n
                /\ ls[Len(ls) - 1] = Ticks(n)
                /\ n > k /\ n >= 4

\* C2 (round trip of code content): the content the Fence Emitter works with,
\* and puts right before the closing fence, is the text of the <code> element
\* as it was before the Code Extractor wrapped its backticks.
C2_RoundTrip ==
    Rendered =>
        \A i \in DOMAIN html_content :
            html_content[i].kind = "pre_code" =>
                LET orig == html_content[i].text
                    t == emitted[i].text
                IN  /\ emitted[i].by = "fence_emitter"
                    /\ emitted[i].content = orig
                    /\ \E n \in 4..Len(t) :
                          /\ SubSeq(t, 1, n + 1) = <<NL>> \o Ticks(n)
                          /\ Drop(t, Len(t) - (Len(orig) + n + 2))
                                 = orig \o <<NL>> \o Ticks(n) \o <<NL>>

\* a text with a zero-width character of its own next to adjacent backticks
\* has been extracted and emitted
C2_Witness ==
    /\ Rendered
    /\ Len(html_content) = 1
    /\ html_content[1].kind = "pre_code"
    /\ html_content[1].text = <<ZW, BT, BT, ZW>>
    /\ emitted[1].by = "fence_emitter"

\* C4 (as claimed): for a <pre><code> whose class gives a language L, the
\* text convert() returns holds the opening fence followed by L, the code on
\* the next line and the closing fence.
C4_LanguageTagSurvives ==
    pc = "return" =>
        \A i \in DOMAIN html_content :
            LET node == html_content[i]
                L == GetCodeLanguage(node.class)
                fence == Ticks(Max(4, LongestRun(node.text) + 1))
            IN  (node.kind = "pre_code" /\ L # <<>>) =>
                    ContainsSub(result,
                        fence \o L \o <<NL>> \o node.text \o <<NL>> \o fence)

\* C5 (as claimed): every emitted block is newline, fence and language tag,
\* newline, the content on a line of its own, newline, fence, newline.
C5_EmittedShape ==
    Rendered =>
        \A i \in FenceEmitted :
            LET block == current_conversion_blocks[emitted[i].idx + 1]
                body == emitted[i].content
                fence == Ticks(Max(4, LongestRun(body) + 1))
            IN  emitted[i].text =
                    <<NL>> \o fence \o block.language \o <<NL>>
                    \o body \o <<NL>> \o fence \o <<NL>>

\* C6 (quarantine coverage, as claimed): a text node with three or more
\* backticks in a row is put in a code element, has a record with an empty
\* language in the buffer behind a placeholder, and is emitted by the Fence
\* Emitter in a fence longer than its longest run.
Quarantined == {i \in DOMAIN html_content :
                   html_content[i].kind = "text" /\ LongestRun(html_content[i].text) >= 3}

C6_QuarantineCoverage ==
    /\ pc = "render" =>
          \A i \in Quarantined :
              /\ soup[i].kind = "pre"
              /\ \E k \in 0..(Len(current_conversion_blocks) - 1) :
                    /\ soup[i].text = Placeholder(k)
                    /\ current_conversion_blocks[k + 1].language = <<>>
                    /\ UnwrapBackticks(current_conversion_blocks[k + 1].content)
                           = html_content[i].text
    /\ Rendered =>
          \A i \in Quarantined :
              /\ emitted[i].by = "fence_emitter"
              /\ LeadingTicks(Split(emitted[i].text, NL)[2])
                     > LongestRun(html_content[i].text)

\* C8 (buffer isolation): the buffer is empty between calls, whether the last
\* one returned or raised, and empty when extraction begins; every record in
\* it, and every record a placeholder resolved to, was made by the running call.
C8_BufferIsolation ==
    /\ pc = "idle" => current_conversion_blocks = <<>>
    /\ (pc \in {"parse", "sanitize"} \/ (pc = "extract" /\ cursor = 1))
           => current_conversion_blocks = <<>>
    /\ \A i \in DOMAIN current_conversion_blocks :
           current_conversion_blocks[i].conv = nconv
    /\ Rendered =>
           \A i \in FenceEmitted :
               /\ emitted[i].idx < Len(current_conversion_blocks)
               /\ current_conversion_blocks[emitted[i].idx + 1].conv = nconv

\* a second call, after one that raised, has resolved a record of its own
C8_Witness ==
    /\ nconv = 2
    /\ last_outcome = "raised"
    /\ Rendered
    /\ FenceEmitted # {}

(***************************************************************************)
(* _normalize_code_fences run line by line on a rendered text: any few     *)
(* lines, or the block convert_pre emits for a record.                     *)
(***************************************************************************)
NormTickCounts == {0, 3, 4, 5}

NormTails == {<<>>, <<"a">>, <<"x", "0", BT>>}

NormLines == {Ticks(k) \o tail : k \in NormTickCounts, tail \in NormTails}

BlockLines == {<<"a">>, <<BT, "a">>, Ticks(4), Ticks(4) \o <<"a">>}

BlockContents ==
    {Join(ls, <<NL>>) : ls \in UNION {[1..m -> BlockLines] : m \in 1..2}}

NormBlocks ==
    {[some |-> TRUE, content |-> WrapBackticks(c), language |-> l] :
        c \in BlockContents, l \in {<<>>, <<"p", "y">>}}

NormInit ==
    /\ \/ /\ src_block = NoBlock
          /\ \E ls \in UNION {[1..m -> NormLines] : m \in 1..MaxLines} :
                 markdown = Join(ls, <<NL>>)
       \/ /\ src_block \in NormBlocks
          /\ markdown = FencedBlock(src_block)
    /\ pc = "n_begin"
    /\ result = <<>>
    /\ nconv = 0 /\ html_content = <<>> /\ soup = <<>> /\ cursor = 0
    /\ current_conversion_blocks = <<>> /\ emitted = <<>> /\ last_outcome = "none"
    /\ lines = <<>> /\ fence_stack = <<>> /\ output = <<>>
    /\ first_output = <<>> /\ flushed = 0
    /\ LoopIdle
    /\ EscIdle
    /\ LooseIdle

\* lines 146-151: the marker clean, the split and the empty stack
NormBegin ==
    /\ pc = "n_begin"
    /\ lines' = Split(CleanFenceMarkers(markdown), NL)
    /\ output' = <<>>
    /\ fence_stack' = <<>>
    /\ idx' = 1
    /\ pc' = "n_loop"
    /\ UNCHANGED <<markdown, result, convRest, pass, src_block, first_output,
                   flushed, escVars, looseVars>>

\* lines 153-164: one iteration of the for loop
NormLoop ==
    /\ pc = "n_loop"
    /\ idx <= Len(lines)
    /\ LET st == NormalizeLine([fence_stack |-> fence_stack, output |-> output],
                               lines[idx])
       IN  /\ fence_stack' = st.fence_stack
           /\ output' = st.output
    /\ idx' = idx + 1
    /\ pc' = IF idx = Len(lines) THEN "n_flush" ELSE "n_loop"
    /\ UNCHANGED <<markdown, result, convRest, pass, src_block, lines,
                   first_output, flushed, escVars, looseVars>>

\* lines 167-168: close any remaining open fences
NormFlush ==
    /\ pc = "n_flush"
    /\ LET st == FlushFences([fence_stack |-> fence_stack, output |-> output])
       IN  /\ fence_stack' = st.fence_stack
           /\ output' = st.output
    /\ flushed' = Len(fence_stack)
    /\ pc' = "n_done"
    /\ UNCHANGED <<markdown, result, convRest, loopVars, src_block, lines,
                   first_output, escVars, looseVars>>

\* line 171: return self._escape_loose_backticks('\n'.join(output))
NormReturn ==
    /\ pc = "n_done"
    /\ pass = 1
    /\ result' = EscapeLooseBackticks(Join(output, <<NL>>))
    /\ pc' = "n_returned"
    /\ UNCHANGED <<markdown, convRest, loopVars, normVars, escVars, looseVars>>

\* the loop run once more, over the lines it wrote
NormAgain ==
    /\ pc = "n_returned"
    /\ pass = 1
    /\ pass' = 2
    /\ first_output' = output
    /\ lines' = output
    /\ output' = <<>>
    /\ fence_stack' = <<>>
    /\ flushed' = 0
    /\ idx' = 1
    /\ pc' = "n_loop"
    /\ UNCHANGED <<markdown, result, convRest, src_block, escVars, looseVars>>

NormNext == NormBegin \/ NormLoop \/ NormFlush \/ NormReturn \/ NormAgain

SpecNorm == NormInit /\ [][NormNext]_vars

IsFenceLine(line) == LeadingTicks(line) >= 4

FenceLinesOf(ls) == SelectSeq(ls, IsFenceLine)

IsContentLineOfBlock(i) ==
    /\ src_block.some
    /\ src_block.language # <<>>
    /\ 3 <= i /\ i <= Len(lines) - 2

\* C10 (as claimed): while the loop reads a content line of an emitted block
\* it writes that line as it is and neither pushes nor pops.
C10_ContentNotReinterpreted ==
    [][(pc = "n_loop" /\ pass = 1 /\ IsContentLineOfBlock(idx)) =>
           (fence_stack' = fence_stack /\ output' = Append(output, lines[idx]))]_vars

(***************************************************************************)
(* formatter.py: DatasetFormatter._structure_entry and                     *)
(* _escape_md_in_content, the latter line by line.                         *)
(***************************************************************************)
\* the character class of line 72: # * _ ~ | < > [ ] { } backtick -
MetaChars == {"#", "*", "_", "~", "|", "<", ">", "[", "]", "{", "}", BT, "-"}

\* an escaping that puts a backslash before every metacharacter
RECURSIVE EscapeEveryMeta(_)
EscapeEveryMeta(s) ==
    IF s = <<>> THEN <<>>
    ELSE (IF Head(s) \in MetaChars THEN <<BS, Head(s)>> ELSE <<Head(s)>>)
         \o EscapeEveryMeta(Tail(s))

\* re.sub(r'(?<!\\)([...])', r'\\\1', line), prev the character before s
RECURSIVE EscapeMetaFrom(_, _)
EscapeMetaFrom(s, prev) ==
    IF s = <<>> THEN <<>>
    ELSE (IF Head(s) \in MetaChars /\ prev # BS THEN <<BS, Head(s)>> ELSE <<Head(s)>>)
         \o EscapeMetaFrom(Tail(s), Head(s))

EscapeMeta(line) == EscapeMetaFrom(line, "")

\* lines 58-73: one iteration of the loop of _escape_md_in_content
EscapeLine(st, line) ==
    LET n == LeadingTicks(line) IN
    IF n >= 3
    THEN [code_block_depth |->
              IF st.current_fence = <<>> THEN st.code_block_depth + 1
              ELSE IF Strip(line) = st.current_fence THEN st.code_block_depth - 1
              ELSE st.code_block_depth,
          current_fence |->
              IF st.current_fence = <<>> THEN Ticks(n)
              ELSE IF Strip(line) = st.current_fence THEN <<>>
              ELSE st.current_fence,
          lines |-> Append(st.lines, line),
          class |-> Append(st.class, "fence")]
    ELSE IF st.code_block_depth > 0
    THEN [st EXCEPT !.lines = Append(st.lines, line),
                    !.class = Append(st.class, "code")]
    ELSE [st EXCEPT !.lines = Append(st.lines, EscapeMeta(line)),
                    !.class = Append(st.class, "prose")]

NonBlank(section) == Strip(section) # <<>>

\* lines 42-49 of _structure_entry, body the escaped content; the literal
\* pieces of the f-strings are single tokens
StructureEntry(title, url, body) ==
    LET sections ==
            << <<"<!-- Entry start: ">> \o title \o <<" -->">>,
               <<"## ">> \o title,
               IF url # <<>> THEN <<"[Source](">> \o url \o <<")">> ELSE <<>>,
               body,
               <<"<!-- Entry end -->">> >>
    IN  Join(SelectSeq(sections, NonBlank), <<NL, NL>>)

Link == <<"[", "a", "]", "(", "u", ")">>

Image == <<"!">> \o Link

EscTickCounts == {0, 3, 4}

EscTails == {<<>>, <<"#">>, <<BS, "#">>}

EscLines ==
    {Ticks(k) \o tail : k \in EscTickCounts, tail \in EscTails}
    \cup {Ticks(1), Ticks(3) \o <<SP>>, Link, Image}

Titles == {<<"T">>}

Urls == {<<>>, <<"u">>}

EscInit ==
    /\ pc = "f_begin"
    /\ \E ls \in UNION {[1..m -> EscLines] : m \in 1..MaxEscLines} :
           entry_content = Join(ls, <<NL>>)
    /\ content = <<>> /\ code_block_depth = 0 /\ current_fence = <<>>
    /\ esc_lines = <<>> /\ line_class = <<>> /\ escaped = <<>>
    /\ first_pass = NoPass /\ entry = <<>>
    /\ markdown = <<>> /\ result = <<>>
    /\ nconv = 0 /\ html_content = <<>> /\ soup = <<>> /\ cursor = 0
    /\ current_conversion_blocks = <<>> /\ emitted = <<>> /\ last_outcome = "none"
    /\ LoopIdle
    /\ NormIdle
    /\ LooseIdle

\* line 46: _escape_md_in_content(content.strip()) is called; lines 53-55
EscBegin ==
    /\ pc = "f_begin"
    /\ content' = Strip(entry_content)
    /\ code_block_depth' = 0
    /\ current_fence' = <<>>
    /\ esc_lines' = <<>>
    /\ line_class' = <<>>
    /\ idx' = 1
    /\ pc' = "e_loop"
    /\ UNCHANGED <<markdown, result, convRest, pass, normVars, looseVars, entry_content,
                   escaped, first_pass, entry>>

\* _escape_md_in_content(content) called on the content as it is
EscDirect ==
    /\ pc = "f_begin"
    /\ content' = entry_content
    /\ code_block_depth' = 0
    /\ current_fence' = <<>>
    /\ esc_lines' = <<>>
    /\ line_class' = <<>>
    /\ idx' = 1
    /\ pc' = "e_loop"
    /\ UNCHANGED <<markdown, result, convRest, pass, normVars, looseVars, entry_content,
                   escaped, first_pass, entry>>

\* lines 57-73
EscLoop ==
    /\ pc = "e_loop"
    /\ LET todo == Split(content, NL)
           st == EscapeLine([code_block_depth |-> code_block_depth,
                             current_fence |-> current_fence,
                             lines |-> esc_lines, class |-> line_class],
                            todo[idx])
       IN  /\ idx <= Len(todo)
           /\ code_block_depth' = st.code_block_depth
           /\ current_fence' = st.current_fence
           /\ esc_lines' = st.lines
           /\ line_class' = st.class
           /\ pc' = IF idx = Len(todo) THEN "e_join" ELSE "e_loop"
    /\ idx' = idx + 1
    /\ UNCHANGED <<markdown, result, convRest, pass, normVars, looseVars, entry_content,
                   content, escaped, first_pass, entry>>

\* line 75: return '\n'.join(lines)
EscReturn ==
    /\ pc = "e_join"
    /\ escaped' = Join(esc_lines, <<NL>>)
    /\ pc' = IF pass = 1 THEN "f_sections" ELSE "e_done"
    /\ UNCHANGED <<markdown, result, convRest, loopVars, normVars, looseVars, entry_content,
                   content, code_block_depth, current_fence, esc_lines,
                   line_class, first_pass, entry>>

\* lines 42-49: the sections are joined
StructureEntryJoin ==
    /\ pc = "f_sections"
    /\ \E title \in Titles, url \in Urls :
           entry' = StructureEntry(title, url, escaped)
    /\ pc' = "f_done"
    /\ UNCHANGED <<markdown, result, convRest, loopVars, normVars, looseVars, entry_content,
                   content, code_block_depth, current_fence, esc_lines,
                   line_class, escaped, first_pass>>

\* _escape_md_in_content applied to what it returned
EscAgain ==
    /\ pc = "f_done"
    /\ pass = 1
    /\ pass' = 2
    /\ first_pass' = [escaped |-> escaped, class |-> line_class]
    /\ content' = escaped
    /\ code_block_depth' = 0
    /\ current_fence' = <<>>
    /\ esc_lines' = <<>>
    /\ line_class' = <<>>
    /\ idx' = 1
    /\ pc' = "e_loop"
    /\ UNCHANGED <<markdown, result, convRest, normVars, looseVars, entry_content,
                   escaped, entry>>

EscNext == EscBegin \/ EscDirect \/ EscLoop \/ EscReturn \/ StructureEntryJoin \/ EscAgain

SpecEsc == EscInit /\ [][EscNext]_vars

\* C7 (idempotence): the Entry Escaper applied to its own output returns that
\* output, and takes every line (fence, code or prose) as the first pass did.
C7_Idempotent ==
    (pass = 2 /\ pc = "e_done") =>
        /\ escaped = first_pass.escaped
        /\ line_class = first_pass.class

\* a content with a code line and a prose line, changed by the first pass,
\* has gone through the second
C7_Witness ==
    /\ pass = 2
    /\ pc = "e_done"
    /\ first_pass.escaped # entry_content
    /\ \E i, j \in DOMAIN line_class :
           line_class[i] = "code" /\ line_class[j] = "prose"

\* s is [text](url) or ![alt](url)
IsLinkShape(s) ==
    LET b == IF s # <<>> /\ s[1] = "!" THEN 2 ELSE 1 IN
    /\ Len(s) >= b + 3
    /\ s[b] = "["
    /\ s[Len(s)] = ")"
    /\ \E m \in (b + 1)..(Len(s) - 2) :
          /\ s[m] = "]" /\ s[m + 1] = "("
          /\ \A j \in (b + 1)..(m - 1) : s[j] \notin {"[", "]"}
          /\ \A j \in (m + 2)..(Len(s) - 1) : s[j] \notin {"(", ")"}

\* C9 (as claimed): a link or image on a line outside any code block is in
\* the escaped line, and so in the formatted entry, as it was in the content.
C9_LinksExempt ==
    (pass = 1 /\ pc \in {"f_sections", "f_done"}) =>
        \A i \in DOMAIN esc_lines :
            line_class[i] = "prose" =>
                LET line == Split(content, NL)[i] IN
                \A p \in 1..Len(line) : \A q \in p..Len(line) :
                    IsLinkShape(SubSeq(line, p, q)) =>
                        /\ ContainsSub(esc_lines[i], SubSeq(line, p, q))
                        /\ pc = "f_done" => ContainsSub(entry, SubSeq(line, p, q))

(***************************************************************************)
(* converter.py: _escape_loose_backticks run line by line on a normalized  *)
(* text.                                                                   *)
(***************************************************************************)
\* lines 179-187: one iteration of the for loop
EscapeLooseLine(st, line) ==
    IF StartsWith(Strip(line), Ticks(3))
    THEN [in_code_block |-> ~st.in_code_block, buffer |-> Append(st.buffer, line)]
    ELSE [in_code_block |-> st.in_code_block,
          buffer |-> Append(st.buffer,
                            IF st.in_code_block THEN line ELSE EscapeRuns(line))]

LooseTickCounts == {0, 1, 2, 3}

LooseHeads == {<<>>, <<"a">>, <<BS>>}

LooseLines ==
    {head \o Ticks(k) : head \in LooseHeads, k \in LooseTickCounts}
    \cup {<<SP>> \o Ticks(3), Ticks(2) \o <<"a">> \o Ticks(2)}

LooseInit ==
    /\ \E ls \in UNION {[1..m -> LooseLines] : m \in 1..MaxLines} :
           markdown = Join(ls, <<NL>>)
    /\ pc = "l_begin"
    /\ result = <<>>
    /\ nconv = 0 /\ html_content = <<>> /\ soup = <<>> /\ cursor = 0
    /\ current_conversion_blocks = <<>> /\ emitted = <<>> /\ last_outcome = "none"
    /\ LoopIdle
    /\ NormIdle
    /\ EscIdle
    /\ LooseIdle

\* lines 175-178: the flag, the buffer and the split
LooseBegin ==
    /\ pc = "l_begin"
    /\ in_code_block' = FALSE
    /\ buffer' = <<>>
    /\ lines' = Split(markdown, NL)
    /\ idx' = 1
    /\ pc' = "l_loop"
    /\ UNCHANGED <<markdown, result, convRest, pass, src_block, fence_stack,
                   output, first_output, flushed, escVars>>

\* lines 178-187: one iteration of the for loop
LooseLoop ==
    /\ pc = "l_loop"
    /\ idx <= Len(lines)
    /\ LET st == EscapeLooseLine([in_code_block |-> in_code_block,
                                  buffer |-> buffer], lines[idx])
       IN  /\ in_code_block' = st.in_code_block
           /\ buffer' = st.buffer
    /\ idx' = idx + 1
    /\ pc' = IF idx = Len(lines) THEN "l_join" ELSE "l_loop"
    /\ UNCHANGED <<markdown, result, convRest, pass, normVars, escVars>>

\* line 189: return '\n'.join(buffer)
LooseReturn ==
    /\ pc = "l_join"
    /\ result' = Join(buffer, <<NL>>)
    /\ pc' = "l_returned"
    /\ UNCHANGED <<markdown, convRest, loopVars, normVars, escVars, looseVars>>

LooseNext == LooseBegin \/ LooseLoop \/ LooseReturn

SpecLoose == LooseInit /\ [][LooseNext]_vars

\* n backslash-backtick pairs
PrefixedRun(n) == [i \in 1..(2 * n) |-> IF i % 2 = 1 THEN BS ELSE BT]

\* a line with each run of two or more backticks that no backslash precedes
\* replaced by as many backslash-backtick pairs (prev: the character before s)
RECURSIVE PrefixEachBacktick(_, _)
PrefixEachBacktick(prev, s) ==
    IF s = <<>> THEN <<>>
    ELSE LET n == LeadingTicks(s) IN
         IF n = 0 THEN <<Head(s)>> \o PrefixEachBacktick(Head(s), Tail(s))
         ELSE (IF n >= 2 /\ prev # BS THEN PrefixedRun(n) ELSE Ticks(n))
              \o PrefixEachBacktick(BT, Drop(s, n))

\* C11 (loose-backtick escaper): an iteration of the loop on a line outside
\* the flagged region, the line not being a boundary itself, writes the line
\* with every run of n >= 2 backticks that no backslash precedes turned into
\* n backslash-backtick pairs, and every other run as it was; an iteration
\* on a boundary line or inside the flagged region writes the line unchanged.
C11_EachBacktickPrefixed ==
    [][pc = "l_loop" =>
           buffer' = Append(buffer,
                            IF in_code_block \/ StartsWith(Strip(lines[idx]), Ticks(3))
                            THEN lines[idx]
                            ELSE PrefixEachBacktick(SP, lines[idx]))]_vars

\* what the claim says of the lines it leaves alone: an iteration inside the
\* flagged region writes the line it read
C11_FlaggedLinesUnchanged ==
    [][(pc = "l_loop" /\ in_code_block /\ ~StartsWith(Strip(lines[idx]), Ticks(3))) =>
           buffer' = Append(buffer, lines[idx])]_vars

\* a run of two backticks outside the flagged region has been written
C11_RunEscaped ==
    /\ pc \in {"l_loop", "l_join", "l_returned"}
    /\ \E i \in DOMAIN buffer :
           /\ lines[i] = Ticks(2)
           /\ buffer[i] # lines[i]

====
